---------------------------- MODULE Spec2Model ----------------------------
(***************************************************************************)
(* Fractal image compression: the encoder of fractal_compress.py (exhaus-  *)
(* tive best-match search with least-squares contrast/offset fitting) and  *)
(* the decoder of fractal_decompress.py (iterated application of the       *)
(* codebook to a seed image), as one pipeline                              *)
(*                                                                         *)
(*    image --main (encoder)--> indices.npy --main (decoder)--> result     *)
(*                                                                         *)
(* Geometry.  The source fixes a 512 x 512 image, 4 x 4 range blocks and   *)
(* 8 x 8 domain blocks.  The model keeps the code's formulas, written over *)
(* IMAGE_SIZE, RANGE_SIZE and DOMAIN_SIZE, and instantiates them at        *)
(* 8 / 2 / 4: DOMAIN_SIZE = 2 * RANGE_SIZE and both divide IMAGE_SIZE, as  *)
(* in the source, and there are 2 x 2 domain blocks and 4 x 4 range        *)
(* blocks, so that every index computation (div, mod, raster order) has    *)
(* more than one row and more than one column to get wrong.                *)
(*                                                                         *)
(* Numbers.  The source computes in float64 and stores contrast and        *)
(* offset as float32.  The model computes in exact rationals <<n, d>>      *)
(* (d > 0, lowest terms).  The encoder's integer-valued intermediate       *)
(* quantities are kept as integers, each scaled by the power of two named  *)
(* at its definition.  On the images the model enumerates every emitted    *)
(* contrast and offset and every decoded intensity is a dyadic rational of *)
(* a few bits, so the floating-point computation of the source is exact on *)
(* them and the model computes the very values the program computes.       *)
(***************************************************************************)
EXTENDS Integers, Sequences, FiniteSets, TLC

(***************************************************************************)
(* Module-level constants of the two programs (scaled geometry, see above) *)
(***************************************************************************)
IMAGE_SIZE == 8
RANGE_SIZE == 2
DOMAIN_SIZE == 4
SYMMETRY_COUNT == 8
ITERATIONS == 8

(***************************************************************************)
(* Bounds of the model                                                     *)
(***************************************************************************)
\* Source images are assembled from the first NumTiles tiles of the catalogue.
NumTiles == 3
\* A loaded codebook file has between R - MaxDelta and R + MaxDelta records.
MaxDelta == 1

(***************************************************************************)
(* Exact rational arithmetic                                               *)
(***************************************************************************)
Abs(x) == IF x < 0 THEN -x ELSE x

RECURSIVE GCD(_, _)
GCD(a, b) == IF b = 0 THEN a ELSE GCD(b, a % b)

\* n / d in lowest terms, d > 0
Rat(n, d) ==
  LET g == GCD(Abs(n), d)
  IN  <<n \div g, d \div g>>

FromInt(n) == <<n, 1>>

RAdd(a, b) ==
  IF a[2] = 1 /\ b[2] = 1 THEN <<a[1] + b[1], 1>>
  ELSE LET g == GCD(a[2], b[2])
       IN  Rat(a[1] * (b[2] \div g) + b[1] * (a[2] \div g),
               (a[2] \div g) * b[2])

RNeg(a) == <<-a[1], a[2]>>

RSub(a, b) == RAdd(a, RNeg(b))

RMul(a, b) ==
  LET g1 == GCD(Abs(a[1]), b[2])
      g2 == GCD(Abs(b[1]), a[2])
  IN  <<(a[1] \div g1) * (b[1] \div g2), (a[2] \div g2) * (b[2] \div g1)>>

RLess(a, b) ==
  LET g == GCD(a[2], b[2])
  IN  a[1] * (b[2] \div g) < b[1] * (a[2] \div g)

RLeq(a, b) == ~RLess(b, a)

RAbs(a) == <<Abs(a[1]), a[2]>>

RMax(a, b) == IF RLess(a, b) THEN b ELSE a

RMin(a, b) == IF RLess(b, a) THEN b ELSE a

\* The content of memory that was allocated (np.empty_like) and never written.
\* Any arithmetic on it yields an unknown value again.
Uninit == <<0, 0>>

IsUninit(a) == a[2] = 0


(***************************************************************************)
(* Arrays.  A two-dimensional array is [h, w, px]: its shape and its       *)
(* samples px[y, x], 0 <= y < h, 0 <= x < w.                               *)
(***************************************************************************)
Min(a, b) == IF a < b THEN a ELSE b

Max(a, b) == IF a < b THEN b ELSE a

Idx(h, w) == (0 .. h - 1) \X (0 .. w - 1)

\* The same function with its values computed once and stored.
Materialize(f) == f @@ << >>

Array(h, w, f) == [h |-> h, w |-> w, px |-> f]

\* The same array with its samples computed once and stored.
Stored(a) == [h |-> a.h, w |-> a.w, px |-> Materialize(a.px)]

\* numpy's a[y : y + size, x : x + size]: the slice is cut at the array's edge.
Slice(a, y, x, size) ==
  LET y1 == Min(y, a.h)
      y2 == Min(y + size, a.h)
      x1 == Min(x, a.w)
      x2 == Min(x + size, a.w)
  IN  Array(y2 - y1, x2 - x1,
            [p \in Idx(y2 - y1, x2 - x1) |-> a.px[y1 + p[1], x1 + p[2]]])

\* Python's range(0, IMAGE_SIZE, step) as a sequence
RangeStep(step) ==
  [i \in 1 .. ((IMAGE_SIZE + step - 1) \div step) |-> (i - 1) * step]

\* arr.reshape(-1): the samples in row-major order, indexed from 0
Flatten(a) == [j \in 0 .. (a.h * a.w - 1) |-> a.px[j \div a.w, j % a.w]]

\* np.rot90(arr, k = 1): one quarter turn counter-clockwise
Rot90(a) ==
  Array(a.w, a.h, [p \in Idx(a.w, a.h) |-> a.px[p[2], a.w - 1 - p[1]]])

RECURSIVE Rot90Times(_, _)
Rot90Times(a, k) == IF k = 0 THEN a ELSE Rot90Times(Rot90(a), k - 1)

\* np.flip(arr, axis = -1): mirror every row
FlipLast(a) ==
  Array(a.h, a.w, [p \in Idx(a.h, a.w) |-> a.px[p[1], a.w - 1 - p[2]]])

(***************************************************************************)
(* Source images.  An ingested image is an 8-bit grid built from tiles of  *)
(* DOMAIN_SIZE x DOMAIN_SIZE samples, one tile per domain-block position   *)
(* (the choice q), and has any of the shapes in Shapes: the configured     *)
(* one, one row short, one column short, and one row and column too many.  *)
(* Images of another shape than the configured one repeat a single tile.   *)
(* The catalogue: flat 128, flat 200, a texture whose least-squares fits   *)
(* have contrasts of magnitude 2 and equal-error variants, and black.      *)
(***************************************************************************)
Tile(k) ==
  CASE k = 1 -> << <<128, 128, 128, 128>>, <<128, 128, 128, 128>>,
                   <<128, 128, 128, 128>>, <<128, 128, 128, 128>> >>
    [] k = 2 -> << <<200, 200, 200, 200>>, <<200, 200, 200, 200>>,
                   <<200, 200, 200, 200>>, <<200, 200, 200, 200>> >>
    [] k = 3 -> << <<4, 1, 0, 0>>, <<0, 2, 2, 3>>,
                   <<1, 2, 2, 0>>, <<4, 4, 3, 0>> >>
    [] OTHER -> << <<0, 0, 0, 0>>, <<0, 0, 0, 0>>,
                   <<0, 0, 0, 0>>, <<0, 0, 0, 0>> >>

DomainsPerSide == IMAGE_SIZE \div DOMAIN_SIZE

TileChoices == [0 .. (DomainsPerSide * DomainsPerSide - 1) -> 1 .. NumTiles]

Shapes == { <<IMAGE_SIZE, IMAGE_SIZE>>,
            <<IMAGE_SIZE - 1, IMAGE_SIZE>>,
            <<IMAGE_SIZE, IMAGE_SIZE - 1>>,
            <<IMAGE_SIZE + 1, IMAGE_SIZE + 1>> }

\* Samples outside the configured IMAGE_SIZE x IMAGE_SIZE area are black.
SourceImage(q, shape) ==
  Array(shape[1], shape[2],
        [p \in Idx(shape[1], shape[2]) |->
           IF p[1] < IMAGE_SIZE /\ p[2] < IMAGE_SIZE
           THEN Tile(q[(p[1] \div DOMAIN_SIZE) * DomainsPerSide
                       + (p[2] \div DOMAIN_SIZE)])
                    [(p[1] % DOMAIN_SIZE) + 1][(p[2] % DOMAIN_SIZE) + 1]
           ELSE 0])

(***************************************************************************)
(* Encoder: fractal_compress.py                                            *)
(***************************************************************************)
\* extract_blocks with its loops exchanged: x outer, y inner
BlockOriginsColumnMajor(size) ==
  LET ys == RangeStep(size)
      xs == RangeStep(size)
  IN  [k \in 1 .. (Len(ys) * Len(xs)) |->
         <<ys[((k - 1) % Len(ys)) + 1], xs[((k - 1) \div Len(ys)) + 1]>>]

\* The origins (y, x) in the order the two loops of extract_blocks visit
\* them: y outer, x inner.
BlockOrigins(size) ==
  LET ys == RangeStep(size)
      xs == RangeStep(size)
  IN  [k \in 1 .. (Len(ys) * Len(xs)) |->
         <<ys[((k - 1) \div Len(xs)) + 1], xs[((k - 1) % Len(xs)) + 1]>>]

extract_blocks(image, size) ==
  LET origins == BlockOrigins(size)
  IN  [k \in 1 .. Len(origins) |->
         Slice(image, origins[k][1], origins[k][2], size)]

\* np.stack raises ValueError unless all blocks have the same shape.
StackRaises(blocks) ==
  \E i, j \in DOMAIN blocks :
     blocks[i].h # blocks[j].h \/ blocks[i].w # blocks[j].w

transform_enc(arr, sym) ==
  LET rotated == Rot90Times(arr, sym % 4)
  IN  IF sym >= 4 THEN FlipLast(rotated) ELSE rotated

\* Four times the source's downscale: the sum of each 2 x 2 group (the
\* source multiplies the sum by 0.25).
downscale_enc(arr) ==
  Array(arr.h \div 2, arr.w \div 2,
        [p \in Idx(arr.h \div 2, arr.w \div 2) |->
           arr.px[2 * p[1], 2 * p[2]] + arr.px[2 * p[1], 2 * p[2] + 1]
           + arr.px[2 * p[1] + 1, 2 * p[2]]
           + arr.px[2 * p[1] + 1, 2 * p[2] + 1]])

\* Samples per range block
BlockLen == RANGE_SIZE * RANGE_SIZE

\* Sum of a flat vector indexed 0 .. n - 1
RECURSIVE SumTo(_, _)
SumTo(f, n) == IF n = 0 THEN 0 ELSE f[n - 1] + SumTo(f, n - 1)

Dot(f, g, n) == SumTo([j \in 0 .. n - 1 |-> f[j] * g[j]], n)

\* domain_variants[d, sym] (np.stack(..., axis = 1)), times 4
domain_variants(domain_blocks) ==
  [ds \in (0 .. Len(domain_blocks) - 1) \X (0 .. SYMMETRY_COUNT - 1) |->
     Stored(downscale_enc(transform_enc(domain_blocks[ds[1] + 1], ds[2])))]

\* variant_flat[v] = domain_variants.reshape(-1, r * r)[v], times 4: the
\* reshape numbers the variants with the domain outer and the symmetry inner.
variant_flat(domain_blocks, v) ==
  Flatten(domain_variants(domain_blocks)
            [v \div SYMMETRY_COUNT, v % SYMMETRY_COUNT])

\* The table built once before the search, one row per variant v:
\*   flat      4 * variant_flat[v]
\*   sum       4 * BlockLen * variant_mean[v]
\*   centered  4 * BlockLen * variant_centered[v]
\*   energy    16 * BlockLen^2 * variant_energy[v]
VariantTable(image) ==
  LET domain_blocks == extract_blocks(image, DOMAIN_SIZE)
  IN  Materialize(
        [v \in 0 .. (Len(domain_blocks) * SYMMETRY_COUNT - 1) |->
           LET flat == Materialize(variant_flat(domain_blocks, v))
               sum == SumTo(flat, BlockLen)
               centered ==
                 Materialize([j \in 0 .. BlockLen - 1 |->
                                BlockLen * flat[j] - sum])
           IN  [flat |-> flat, sum |-> sum, centered |-> centered,
                energy |-> Dot(centered, centered, BlockLen)]])

\* variant_energy > 1e-6, on the scaled energy e = 16 * BlockLen^2 *
\* variant_energy: e / (16 * BlockLen^2) > 1 / 10^6.  e is an integer, so
\* this is e > floor(16 * BlockLen^2 / 10^6).
EnergyAboveEps(e) == e > (16 * BlockLen * BlockLen) \div 1000000

\* An argmin that keeps the last index of the minimum
RECURSIVE ArgminLastScan(_, _, _, _)
ArgminLastScan(errors, n, i, best) ==
  IF i = n THEN best
  ELSE IF RLeq(errors[i], errors[best])
       THEN ArgminLastScan(errors, n, i + 1, i)
       ELSE ArgminLastScan(errors, n, i + 1, best)

argmin_last(errors, n) == ArgminLastScan(errors, n, 1, 0)

\* np.argmin: the first index of the minimum
RECURSIVE ArgminScan(_, _, _, _)
ArgminScan(errors, n, i, best) ==
  IF i = n THEN best
  ELSE IF RLess(errors[i], errors[best])
       THEN ArgminScan(errors, n, i + 1, i)
       ELSE ArgminScan(errors, n, i + 1, best)

argmin(errors, n) == ArgminScan(errors, n, 1, 0)

\* contrast[v] = numerator / variant_energy where variant_energy > 1e-6,
\* else 0.0; num = 4 * BlockLen^2 * numerator[v]
Contrast(num, energy) ==
  IF EnergyAboveEps(energy) THEN Rat(4 * num, energy) ELSE FromInt(0)

\* Error without the fallback branch's target_energy: a flat variant is
\* taken to fit perfectly
ErrorFlatFitsAll(te, num, energy) ==
  RMax(IF EnergyAboveEps(energy)
       THEN Rat(te * energy - num * num, BlockLen * BlockLen * energy)
       ELSE FromInt(0),
       FromInt(0))

\* errors[v] = max(target_energy - numerator^2 / variant_energy, 0) where
\* variant_energy > 1e-6, else max(target_energy, 0);
\* te = BlockLen^2 * target_energy
Error(te, num, energy) ==
  RMax(IF EnergyAboveEps(energy)
       THEN Rat(te * energy - num * num, BlockLen * BlockLen * energy)
       ELSE Rat(te, BlockLen * BlockLen),
       FromInt(0))

\* A float64 stored into an "f4" field.  A dyadic rational with a numerator
\* below 2^24 is stored exactly; any other value is rounded, and the model
\* does not know the result.
RECURSIVE IsPow2(_)
IsPow2(d) == d = 1 \/ (d > 1 /\ d % 2 = 0 /\ IsPow2(d \div 2))

ToFloat32(x) ==
  IF IsPow2(x[2]) /\ Abs(x[1]) < 16777216 THEN x ELSE Uninit

\* One pass of the inner loop body for the range block at (y, x)
BlockFit(image, vt, y, x) ==
  LET n == Cardinality(DOMAIN vt)
      block == Slice(image, y, x, RANGE_SIZE)
      target == Flatten(block)
      target_sum == SumTo(target, BlockLen)
      target_mean == Rat(target_sum, BlockLen)
      \* BlockLen * target_centered
      target_centered ==
        Materialize([j \in 0 .. BlockLen - 1 |->
                       BlockLen * target[j] - target_sum])
      \* BlockLen^2 * target_energy
      target_energy == Dot(target_centered, target_centered, BlockLen)
      \* 4 * BlockLen^2 * numerator
      numerator ==
        Materialize([v \in 0 .. n - 1 |->
                       Dot(vt[v].centered, target_centered, BlockLen)])
      contrast ==
        [v \in 0 .. n - 1 |-> Contrast(numerator[v], vt[v].energy)]
      errors ==
        Materialize([v \in 0 .. n - 1 |->
                       Error(target_energy, numerator[v], vt[v].energy)])
      best == argmin(errors, n)
      mean_d == Rat(vt[best].sum, 4 * BlockLen)
      best_contrast == contrast[best]
      best_offset == RSub(target_mean, RMul(best_contrast, mean_d))
  IN  [errors |-> errors,
       contrast |-> contrast,
       best |-> best,
       entry |-> [domain |-> best \div SYMMETRY_COUNT,
                  sym |-> best % SYMMETRY_COUNT,
                  contrast |-> ToFloat32(best_contrast),
                  offset |-> ToFloat32(best_offset)]]

RangesPerSide == IMAGE_SIZE \div RANGE_SIZE

\* The record count the encoder allocates: pairs = np.empty(R, ...)
RecordCount == RangesPerSide * RangesPerSide

\* The entry stored by column: base taken from the inner loop's index
PairIndexTransposed(idx, jdx) == jdx * (IMAGE_SIZE \div RANGE_SIZE) + idx

\* Where the pass (idx, jdx) of the nested loops stores its entry:
\* base = idx * range_blocks_per_side; pairs[base + jdx] = ...
PairIndex(idx, jdx) == idx * RangesPerSide + jdx

\* The two nested loops of main: pairs[base + jdx] for the block at (y, x),
\* y = ys[idx], x = xs[jdx], base = idx * range_blocks_per_side.  pairs is
\* indexed from 0; an index no pass assigns keeps np.empty's content.
EncodePairs(image) ==
  LET vt == VariantTable(image)
      ys == RangeStep(RANGE_SIZE)
      xs == RangeStep(RANGE_SIZE)
      Assigned(i) ==
        {yx \in (1 .. Len(ys)) \X (1 .. Len(xs)) :
           PairIndex(yx[1] - 1, yx[2] - 1) = i}
  IN  [i \in 0 .. RecordCount - 1 |->
         IF Assigned(i) = {}
         THEN [domain |-> 0, sym |-> 0, contrast |-> Uninit, offset |-> Uninit]
         ELSE LET yx == CHOOSE c \in Assigned(i) :
                           \A o \in Assigned(i) :
                              o[1] < c[1] \/ (o[1] = c[1] /\ o[2] <= c[2])
              IN  BlockFit(image, vt, ys[yx[1]], xs[yx[2]]).entry]


(***************************************************************************)
(* Decoder: fractal_decompress.py                                          *)
(***************************************************************************)
\* Arithmetic on samples that may be uninitialized memory
PAdd(a, b) == IF IsUninit(a) \/ IsUninit(b) THEN Uninit ELSE RAdd(a, b)

PMul(a, b) == IF IsUninit(a) \/ IsUninit(b) THEN Uninit ELSE RMul(a, b)

transform_dec(arr, sym) ==
  LET rotated == Rot90Times(arr, sym % 4)
  IN  IF sym >= 4 THEN FlipLast(rotated) ELSE rotated

downscale_dec(arr) ==
  Array(arr.h \div 2, arr.w \div 2,
        [p \in Idx(arr.h \div 2, arr.w \div 2) |->
           PMul(PAdd(PAdd(PAdd(arr.px[2 * p[1], 2 * p[2]],
                               arr.px[2 * p[1], 2 * p[2] + 1]),
                          arr.px[2 * p[1] + 1, 2 * p[2]]),
                     arr.px[2 * p[1] + 1, 2 * p[2] + 1]),
                <<1, 4>>)])

\* np.empty_like(image)
EmptyLike(image) ==
  Stored(Array(image.h, image.w, [p \in Idx(image.h, image.w) |-> Uninit]))

\* Origin (ry, rx) of the range block that entry block_idx is written to
RangeOrigin(block_idx) ==
  << (block_idx \div RangesPerSide) * RANGE_SIZE,
     (block_idx % RangesPerSide) * RANGE_SIZE >>

\* Origin (dy, dx) of the domain block that domain_index addresses
DomainOrigin(domain_index) ==
  << (domain_index \div DomainsPerSide) * DOMAIN_SIZE,
     (domain_index % DomainsPerSide) * DOMAIN_SIZE >>

\* contrasts[block_idx] * downscaled + offsets[block_idx], computed from the
\* estimate `from`
EntryValue(from, entry) ==
  LET d == DomainOrigin(entry.domain)
      domain_block == Slice(from, d[1], d[2], DOMAIN_SIZE)
      transformed == transform_dec(domain_block, entry.sym)
      downscaled == downscale_dec(transformed)
  IN  Stored(Array(downscaled.h, downscaled.w,
                   [p \in Idx(downscaled.h, downscaled.w) |->
                      PAdd(PMul(entry.contrast, downscaled.px[p]),
                           entry.offset)]))

\* The samples of an h x w array that new_image[ry : ry + r, rx : rx + r]
\* addresses for entry block_idx
WrittenPixels(block_idx, h, w) ==
  LET r == RangeOrigin(block_idx)
  IN  (r[1] .. Min(r[1] + RANGE_SIZE, h) - 1)
        \X (r[2] .. Min(r[2] + RANGE_SIZE, w) - 1)

\* iterate updating the estimate in place: every entry reads the buffer the
\* earlier entries have written to
ApplyEntryInPlace(acc, image, pairs, block_idx) ==
  LET r == RangeOrigin(block_idx)
      buffer ==
        Array(image.h, image.w,
              [p \in Idx(image.h, image.w) |->
                 IF IsUninit(acc.new_image.px[p])
                 THEN image.px[p] ELSE acc.new_image.px[p]])
      value == EntryValue(buffer, pairs[block_idx])
      slot == Slice(acc.new_image, r[1], r[2], RANGE_SIZE)
  IN  IF acc.raised \/ slot.h # value.h \/ slot.w # value.w
      THEN [raised |-> TRUE, new_image |-> acc.new_image]
      ELSE [raised |-> FALSE,
            new_image |->
              Array(acc.new_image.h, acc.new_image.w,
                    [p \in WrittenPixels(block_idx, acc.new_image.h,
                                         acc.new_image.w) |->
                       value.px[p[1] - r[1], p[2] - r[2]]]
                    @@ acc.new_image.px)]

\* One pass of iterate's loop.  acc = [raised, new_image]; the assignment
\* new_image[ry : ry + r, rx : rx + r] = value raises ValueError when the
\* value's shape is not the shape of the slice assigned to.
ApplyEntry(acc, image, pairs, block_idx) ==
  LET r == RangeOrigin(block_idx)
      value == EntryValue(image, pairs[block_idx])
      slot == Slice(acc.new_image, r[1], r[2], RANGE_SIZE)
  IN  IF acc.raised \/ slot.h # value.h \/ slot.w # value.w
      THEN [raised |-> TRUE, new_image |-> acc.new_image]
      ELSE [raised |-> FALSE,
            new_image |->
              Array(acc.new_image.h, acc.new_image.w,
                    [p \in WrittenPixels(block_idx, acc.new_image.h,
                                         acc.new_image.w) |->
                       value.px[p[1] - r[1], p[2] - r[2]]]
                    @@ acc.new_image.px)]

\* The loop over the entries in the order `order` (a sequence of indices)
RECURSIVE ApplyAll(_, _, _, _, _)
ApplyAll(acc, image, pairs, order, i) ==
  IF i > Len(order) \/ acc.raised THEN acc
  ELSE ApplyAll(ApplyEntry(acc, image, pairs, order[i]),
                image, pairs, order, i + 1)

NumRecords(pairs) == Cardinality(DOMAIN pairs)

\* for block_idx in range(pairs.shape[0])
LoopOrder(pairs) == [i \in 1 .. NumRecords(pairs) |-> i - 1]

iterate(image, pairs) ==
  ApplyAll([raised |-> FALSE, new_image |-> EmptyLike(image)],
           image, pairs, LoopOrder(pairs), 1)

\* The seed estimate.  The source draws its samples from a fixed-seed
\* generator, scaled by 255; iterate itself takes any estimate.  The model
\* starts from a flat image at either end of that scale.
SeedLevels == {0, 255}

SeedImage(level) ==
  Array(IMAGE_SIZE, IMAGE_SIZE,
        [p \in Idx(IMAGE_SIZE, IMAGE_SIZE) |-> FromInt(level)])

\* np.clip(v, 0.0, 255.0).astype(np.uint8): the conversion drops the
\* fractional part.
ToUint8(v) ==
  IF IsUninit(v) THEN Uninit
  ELSE LET c == RMin(RMax(v, FromInt(0)), FromInt(255))
       IN  FromInt(c[1] \div c[2])

\* The files np.load can find at INDICES_PATH: the encoder's file, or one
\* with up to MaxDelta records fewer or more (the extra ones repeat the
\* last record).
LoadableFiles(records) ==
  { [i \in 0 .. n - 1 |->
       IF i < NumRecords(records) THEN records[i]
       ELSE records[NumRecords(records) - 1]] :
    n \in Max(1, NumRecords(records) - MaxDelta)
            .. (NumRecords(records) + MaxDelta) }

(***************************************************************************)
(* The pipeline                                                            *)
(***************************************************************************)
VARIABLES
  pc,         \* "encode", "enc_raised", "encoded", "decode", "dec_raised", "written"
  image,      \* encoder: the ingested image
  file,       \* indices.npy: [exists, records]
  pairs,      \* decoder: the loaded codebook
  seed,       \* decoder: the level of the seed estimate
  estimate,   \* decoder: main's variable image
  iteration,  \* decoder: completed passes of main's loop
  result      \* decoder: the image written to OUTPUT_PATH

vars == <<pc, image, file, pairs, seed, estimate, iteration, result>>

NoImage == Array(0, 0, << >>)

Init ==
  /\ pc = "encode"
  /\ \E q \in TileChoices, shape \in Shapes :
        /\ shape = <<IMAGE_SIZE, IMAGE_SIZE>> \/ \A k \in DOMAIN q : q[k] = q[0]
        /\ image = Stored(SourceImage(q, shape))
  /\ file = [exists |-> FALSE, records |-> << >>]
  /\ pairs = << >>
  /\ seed = 0
  /\ estimate = NoImage
  /\ iteration = 0
  /\ result = NoImage

\* fractal_compress.main: raises in np.stack, or saves the codebook
Encode ==
  /\ pc = "encode"
  /\ IF StackRaises(extract_blocks(image, DOMAIN_SIZE))
     THEN /\ pc' = "enc_raised"
          /\ file' = file
     ELSE /\ pc' = "encoded"
          /\ file' = [exists |-> TRUE, records |-> EncodePairs(image)]
  /\ UNCHANGED <<image, pairs, seed, estimate, iteration, result>>

\* fractal_decompress.main up to the loop: load the file, draw the seed
DecodeLoad ==
  /\ pc = "encoded"
  /\ file.exists
  /\ \E f \in LoadableFiles(file.records), s \in SeedLevels :
        /\ pairs' = f
        /\ seed' = s
        /\ estimate' = SeedImage(s)
  /\ iteration' = 0
  /\ pc' = "decode"
  /\ UNCHANGED <<image, file, result>>

\* One pass of main's loop: image = iterate(image, pairs)
DecodeIterate ==
  /\ pc = "decode"
  /\ iteration < ITERATIONS
  /\ LET res == iterate(estimate, pairs)
     IN  IF res.raised
         THEN /\ pc' = "dec_raised"
              /\ UNCHANGED <<estimate, iteration>>
         ELSE /\ pc' = "decode"
              /\ estimate' = res.new_image
              /\ iteration' = iteration + 1
  /\ UNCHANGED <<image, file, pairs, seed, result>>

\* After the loop: clip, convert and save
DecodeOutput ==
  /\ pc = "decode"
  /\ iteration = ITERATIONS
  /\ result' = Array(estimate.h, estimate.w,
                     [p \in Idx(estimate.h, estimate.w) |->
                        ToUint8(estimate.px[p])])
  /\ pc' = "written"
  /\ UNCHANGED <<image, file, pairs, seed, estimate, iteration>>

Next == Encode \/ DecodeLoad \/ DecodeIterate \/ DecodeOutput

Spec == Init /\ [][Next]_vars


(***************************************************************************)
(* Properties                                                              *)
(***************************************************************************)
\* The decoder loaded a codebook with the record count of its configuration.
WellFormed == NumRecords(pairs) = RecordCount

ConfiguredShape == image.h = IMAGE_SIZE /\ image.w = IMAGE_SIZE

ReverseOrder(ps) == [i \in 1 .. NumRecords(ps) |-> NumRecords(ps) - i]

IterateInOrder(img, ps, order) ==
  ApplyAll([raised |-> FALSE, new_image |-> EmptyLike(img)], img, ps, order, 1)

\* C1: one call of iterate computes every written range block from the
\* input estimate alone: block k of the result is contrast * downscale(
\* transform(domain block of the INPUT)) + offset, whatever the other
\* entries wrote, and applying the entries in the reverse order gives the
\* same result.
C1_DoubleBuffering ==
  (pc = "decode" /\ iteration < ITERATIONS) =>
    LET res == iterate(estimate, pairs)
    IN  ~res.raised =>
          /\ IterateInOrder(estimate, pairs, ReverseOrder(pairs)) = res
          /\ \A k \in DOMAIN pairs :
                Slice(res.new_image, RangeOrigin(k)[1], RangeOrigin(k)[2],
                      RANGE_SIZE).px
                  = EntryValue(estimate, pairs[k]).px

\* An iterate call on an estimate that is not flat, with an entry of
\* non-zero contrast, has been made.
C1_Witness ==
  /\ pc = "decode"
  /\ iteration = 2
  /\ \E k \in DOMAIN pairs : pairs[k].contrast # FromInt(0)
  /\ \E p, q \in DOMAIN estimate.px : estimate.px[p] # estimate.px[q]

\* C4: the saved codebook has R = (N/r)^2 entries, entry i is the fit of
\* the range block at the location the decoder writes entry i to, and with
\* R entries every sample of the new estimate is written exactly once.
C4_PositionalCodebook ==
  /\ pc = "encoded" =>
       /\ DOMAIN file.records = 0 .. (RecordCount - 1)
       /\ \A i \in 0 .. (RecordCount - 1) :
             RangeOrigin(i) = BlockOrigins(RANGE_SIZE)[i + 1]
       /\ LET vt == VariantTable(image)
          IN  \A i \in 0 .. (RecordCount - 1) :
                 file.records[i]
                   = BlockFit(image, vt, RangeOrigin(i)[1],
                              RangeOrigin(i)[2]).entry
  /\ (pc = "decode" /\ WellFormed) =>
       /\ \A p \in Idx(IMAGE_SIZE, IMAGE_SIZE) :
             Cardinality({k \in DOMAIN pairs :
                            p \in WrittenPixels(k, IMAGE_SIZE, IMAGE_SIZE)})
               = 1
       /\ iteration >= 1 =>
            \A p \in DOMAIN estimate.px : ~IsUninit(estimate.px[p])

\* A codebook whose entries differ has been saved, loaded and applied once.
C4_Witness ==
  /\ pc = "decode"
  /\ iteration = 1
  /\ WellFormed
  /\ \E i, j \in DOMAIN pairs : pairs[i] # pairs[j]

\* The variant (d, s) computed on its own: four times downscale(transform(
\* domain block d, s)), flattened
VariantOf(img, d, s) ==
  Flatten(downscale_enc(transform_enc(
            extract_blocks(img, DOMAIN_SIZE)[d + 1], s)))

DomainCount == DomainsPerSide * DomainsPerSide

\* C5: the variant table is numbered v = domain * S + symmetry, and the
\* entry of every range block names a variant of minimum error, the one of
\* lowest v among those of minimum error.
C5_LowestIndexArgmin ==
  pc = "encoded" =>
    LET vt == VariantTable(image)
    IN  /\ \A d \in 0 .. (DomainCount - 1), s \in 0 .. (SYMMETRY_COUNT - 1) :
              vt[d * SYMMETRY_COUNT + s].flat = VariantOf(image, d, s)
        /\ \A i \in 0 .. (RecordCount - 1) :
              LET fit == BlockFit(image, vt, RangeOrigin(i)[1],
                                  RangeOrigin(i)[2])
                  e == file.records[i]
                  v == e.domain * SYMMETRY_COUNT + e.sym
              IN  /\ e.sym \in 0 .. (SYMMETRY_COUNT - 1)
                  /\ v \in DOMAIN vt
                  /\ \A w \in DOMAIN vt :
                        /\ RLeq(fit.errors[v], fit.errors[w])
                        /\ w < v => RLess(fit.errors[v], fit.errors[w])

\* Some range block's selected variant is not variant 0, and a later
\* variant has the same, minimum, error.
C5_Witness ==
  /\ pc = "encoded"
  /\ LET vt == VariantTable(image)
     IN  \E i \in 0 .. (RecordCount - 1) :
            LET fit == BlockFit(image, vt, RangeOrigin(i)[1],
                                RangeOrigin(i)[2])
                v == file.records[i].domain * SYMMETRY_COUNT
                       + file.records[i].sym
            IN  /\ v > 0
                /\ \E w \in DOMAIN vt : w > v /\ fit.errors[w] = fit.errors[v]

\* Sum of the rationals f[0] .. f[n - 1]
RECURSIVE RSumTo(_, _)
RSumTo(f, n) == IF n = 0 THEN FromInt(0) ELSE RAdd(f[n - 1], RSumTo(f, n - 1))

\* Centered energy sum((x - mean)^2) of the flat vector f / scale
Energy(f, n, scale) ==
  LET mean == Rat(SumTo(f, n), n * scale)
  IN  RSumTo([j \in 0 .. n - 1 |->
                LET c == RSub(Rat(f[j], scale), mean) IN RMul(c, c)], n)

\* e <= 1e-6, for e >= 0: n / d <= 1 / 10^6 iff n <= floor(d / 10^6)
AtMostEps(e) == e[1] <= e[2] \div 1000000

RangeBlock(img, i) ==
  Flatten(Slice(img, RangeOrigin(i)[1], RangeOrigin(i)[2], RANGE_SIZE))

IsFlat(f, n, level) == \A j \in 0 .. n - 1 : f[j] = level

\* C6: a variant whose centered energy is at most 1e-6 has contrast 0 and
\* error E_t for every range block; an entry that selects such a variant is
\* (contrast 0, offset = mean of the range block); and with an all-128
\* domain block 0, an all-200 range block gets the entry (domain 0,
\* symmetry 0, contrast 0, offset 200) with error 0.
C6_DegenerateVariant ==
  pc = "encoded" =>
    LET vt == VariantTable(image)
        degenerate ==
          {v \in DOMAIN vt : AtMostEps(Energy(vt[v].flat, BlockLen, 4))}
    IN  \A i \in 0 .. (RecordCount - 1) :
           LET fit == BlockFit(image, vt, RangeOrigin(i)[1], RangeOrigin(i)[2])
               t == RangeBlock(image, i)
               e == file.records[i]
           IN  /\ \A v \in degenerate :
                     /\ fit.contrast[v] = FromInt(0)
                     /\ fit.errors[v] = Energy(t, BlockLen, 1)
               /\ (e.domain * SYMMETRY_COUNT + e.sym) \in degenerate =>
                     /\ e.contrast = FromInt(0)
                     /\ e.offset = Rat(SumTo(t, BlockLen), BlockLen)
               /\ (IsFlat(vt[0].flat, BlockLen, 4 * 128) /\ IsFlat(t, BlockLen, 200)
                   /\ \A p \in Idx(DOMAIN_SIZE, DOMAIN_SIZE) : image.px[p] = 128) =>
                     /\ e = [domain |-> 0, sym |-> 0,
                             contrast |-> FromInt(0), offset |-> FromInt(200)]
                     /\ fit.errors[fit.best] = FromInt(0)

\* Domain block 0 is all 128, some range block is all 200, and some range
\* block that is not flat is matched against a flat variant.
C6_Witness ==
  /\ pc = "encoded"
  /\ \A p \in Idx(DOMAIN_SIZE, DOMAIN_SIZE) : image.px[p] = 128
  /\ \E i \in 0 .. (RecordCount - 1) : IsFlat(RangeBlock(image, i), BlockLen, 200)
  /\ \E i \in 0 .. (RecordCount - 1) :
        Energy(RangeBlock(image, i), BlockLen, 1) # FromInt(0)

\* C10: every emitted entry has domain_index in [0, (N/d)^2) and
\* symmetry_id in [0, 8), and for every such domain_index the tile the
\* decoder reads lies inside the image at the origin of the encoder's
\* domain block of that index, and holds that block's samples.
C10_DomainAddressing ==
  pc = "encoded" =>
    /\ \A i \in DOMAIN file.records :
          /\ file.records[i].domain \in 0 .. (DomainCount - 1)
          /\ file.records[i].sym \in 0 .. (SYMMETRY_COUNT - 1)
    /\ Len(BlockOrigins(DOMAIN_SIZE)) = DomainCount
    /\ \A k \in 0 .. (DomainCount - 1) :
          /\ DomainOrigin(k) = BlockOrigins(DOMAIN_SIZE)[k + 1]
          /\ DomainOrigin(k)[1] + DOMAIN_SIZE <= IMAGE_SIZE
          /\ DomainOrigin(k)[2] + DOMAIN_SIZE <= IMAGE_SIZE
          /\ Slice(image, DomainOrigin(k)[1], DomainOrigin(k)[2],
                   DOMAIN_SIZE).px
               = extract_blocks(image, DOMAIN_SIZE)[k + 1].px

\* An entry addresses a domain block in the second row of domain blocks,
\* another one a domain block in the second column.
C10_Witness ==
  /\ pc = "encoded"
  /\ \E i \in DOMAIN file.records :
        file.records[i].domain \div DomainsPerSide > 0
  /\ \E i \in DOMAIN file.records :
        file.records[i].domain % DomainsPerSide > 0

\* C2: a codebook whose record count is not (N/r)^2 is rejected: the
\* decoder writes no output image for it, with range blocks left unwritten.
C2_RecordCountChecked ==
  pc = "written" =>
    /\ WellFormed
    /\ \A p \in DOMAIN result.px : ~IsUninit(result.px[p])

\* C3: the encoder emits no codebook for an image whose shape is not the
\* configured N x N.
C3_DimensionChecked == file.exists => ConfiguredShape

\* C7: every sample of the output is the final estimate's intensity
\* clamped to [0, 255] and rounded to a nearest integer.
C7_RoundedOutput ==
  (pc = "written" /\ WellFormed) =>
    \A p \in DOMAIN result.px :
       LET c == RMin(RMax(estimate.px[p], FromInt(0)), FromInt(255))
       IN  RLeq(RAbs(RSub(result.px[p], c)), <<1, 2>>)

RECURSIVE IterateTimes(_, _, _)
IterateTimes(img, ps, k) ==
  IF k = 0 THEN img
  ELSE IterateTimes(iterate(img, ps).new_image, ps, k - 1)

\* C8: decoding the encoder's codebook from any two seeds gives estimates
\* that differ by less than 1 at every sample after ITERATIONS passes.
C8_SeedIndependent ==
  (pc = "written" /\ pairs = file.records) =>
    \A s \in SeedLevels \ {seed} :
       LET other == IterateTimes(SeedImage(s), pairs, ITERATIONS)
       IN  \A p \in DOMAIN estimate.px :
              RLess(RAbs(RSub(estimate.px[p], other.px[p])), FromInt(1))

\* Sum over the samples of (a - b)^2, a row at a time
SquaredError(a, b) ==
  RSumTo([y \in 0 .. a.h - 1 |->
            RSumTo([x \in 0 .. a.w - 1 |->
                      LET c == RSub(a.px[y, x], FromInt(b.px[y, x]))
                      IN  RMul(c, c)], a.w)], a.h)

\* Sum of the errors of the variants the encoder selected
SelectedErrorSum(img) ==
  LET vt == VariantTable(img)
  IN  RSumTo([i \in 0 .. RecordCount - 1 |->
                LET fit == BlockFit(img, vt, RangeOrigin(i)[1],
                                    RangeOrigin(i)[2])
                IN  fit.errors[fit.best]], RecordCount)

\* C9: when decoding the codebook of an N x N image has run to an estimate
\* that further passes leave unchanged, the estimate's total squared error
\* against the image is at most the sum of the selected variants' errors.
C9_RoundTripBound ==
  (/\ pc = "written"
   /\ pairs = file.records
   /\ ConfiguredShape
   /\ iterate(estimate, pairs).new_image.px = estimate.px) =>
    RLeq(SquaredError(estimate, image), SelectedErrorSum(image))

=============================================================================
